---- MODULE Spec2Model ----
(***************************************************************************)
(* Model of bgl's authenticated API-client layer: the persisted Config    *)
(* (internal/config), auth.RefreshToken (internal/auth) and the Backlog   *)
(* API client (internal/backlog): NewClient, doRequest, doPostRequest and *)
(* doPatchRequest (specification Spec); and of the auth commands Login    *)
(* and Logout (internal/auth), with RefreshToken run on its own           *)
(* (specification SpecAuth, and SpecAuthFair with the goroutines of a    *)
(* login attempt scheduled).                                               *)
(*                                                                         *)
(* One CLI process is modelled.  Every invocation of NewClient and of a   *)
(* do*Request function is one action; the recursive call a do*Request     *)
(* function makes after a refresh is the next firing of the same action.  *)
(* log is a history variable: the externally visible events (HTTP calls   *)
(* to the target endpoint, refresh attempts, config loads) of the         *)
(* operation in progress, in the order in which the code performs them.   *)
(***************************************************************************)
EXTENDS Integers, Sequences, FiniteSets, TLC

VARIABLES file, now, client, pc, req, log, result, fileAtEntry

\* the auth commands (bgl auth login, bgl auth logout) and their goroutines
VARIABLES build, logins, lpc, login, listener, chan, senders, timer, reader, ui, last

clientVars == <<now, client, pc, req, log, result, fileAtEntry>>
authVars == <<build, logins, lpc, login, listener, chan, senders, timer, reader, ui, last>>
vars == <<file, now, client, pc, req, log, result, fileAtEntry,
          build, logins, lpc, login, listener, chan, senders, timer, reader, ui, last>>

(***************************************************************************)
(* Bounds                                                                  *)
(***************************************************************************)
\* HTTP calls to the target endpoint the model follows within one request
MaxCalls == 3
\* last instant of the model's clock (epoch milliseconds)
MaxTime == 2

(***************************************************************************)
(* Values                                                                  *)
(***************************************************************************)
\* a string that is not valid UTF-8, and what encoding/json turns it into
InvalidUtf8Tok == "t\\xff"
ReplacedTok == "t\\ufffd"

\* a host that url.Parse rejects (ValidateSpace only looks at the suffix)
BadSpace == "my space.backlog.jp"
Spaces == {"sp.backlog.com", BadSpace}
ExpiryValues == {-1, 0, 2}
Bodies == {"b1", "b2"}
IssuePath == "/api/v2/issues/K-1"
CommentsPath == "/api/v2/issues/K-1/comments"
CommentData == "content=hi"
UpdateData == "statusId=2"

StatusOK == 200
StatusCreated == 201
StatusUnauthorized == 401
OtherStatuses == {204, 404, 500}

\* WWW-Authenticate values, as sequences of words
ExpiredPhrase == <<"The", "access", "token", "expired">>
InvalidPhrase == <<"The", "access", "token", "is", "invalid">>
HdrNone == <<>>
HdrExpired == <<"Bearer", "error=invalid_token", "error_description=",
                "The", "access", "token", "expired">>
HdrInvalid == <<"Bearer", "error=invalid_token", "error_description=",
                "The", "access", "token", "is", "invalid">>
HdrBoth == <<"The", "access", "token", "is", "invalid", ";",
             "The", "access", "token", "expired">>
HdrNear == <<"Bearer", "The", "access", "token", "has", "expired">>
HdrOther == <<"Bearer", "realm=api">>
Headers == {HdrNone, HdrExpired, HdrInvalid, HdrBoth, HdrNear, HdrOther}

NoClient == [present |-> FALSE]
NoReq == [fn |-> "none"]
NoResult == [kind |-> "none"]

(***************************************************************************)
(* internal/config: Config, Load, Save                                     *)
(***************************************************************************)
ZeroConfig == [Space |-> "", AccessToken |-> "", RefreshToken |-> "", ExpiresAt |-> 0]

\* encoding/json replaces invalid UTF-8 in a string by U+FFFD
ToValidUTF8(s) == IF s = InvalidUtf8Tok THEN ReplacedTok ELSE s

\* json.MarshalIndent of a Config: the four keys are always written
Marshal(c) ==
    [space |-> ToValidUTF8(c.Space),
     access_token |-> ToValidUTF8(c.AccessToken),
     refresh_token |-> ToValidUTF8(c.RefreshToken),
     expires_at |-> c.ExpiresAt]

\* expires_at not read back
UnmarshalDropsExpiry(obj) ==
    [Space |-> IF "space" \in DOMAIN obj THEN ToValidUTF8(obj.space) ELSE "",
     AccessToken |-> IF "access_token" \in DOMAIN obj THEN ToValidUTF8(obj.access_token) ELSE "",
     RefreshToken |-> IF "refresh_token" \in DOMAIN obj THEN ToValidUTF8(obj.refresh_token) ELSE "",
     ExpiresAt |-> 0]

\* json.Unmarshal into a zero Config: an absent key leaves the zero value
Unmarshal(obj) ==
    [Space |-> IF "space" \in DOMAIN obj THEN ToValidUTF8(obj.space) ELSE "",
     AccessToken |-> IF "access_token" \in DOMAIN obj THEN ToValidUTF8(obj.access_token) ELSE "",
     RefreshToken |-> IF "refresh_token" \in DOMAIN obj THEN ToValidUTF8(obj.refresh_token) ELSE "",
     ExpiresAt |-> IF "expires_at" \in DOMAIN obj THEN obj.expires_at ELSE 0]

FileAbsent == [kind |-> "absent"]
FileGarbage == [kind |-> "garbage"]
JsonFile(obj) == [kind |-> "json", obj |-> obj]

\* config.Load: a missing file is the zero Config, not an error
Load(f, readOk) ==
    IF f.kind = "absent" THEN [ok |-> TRUE, cfg |-> ZeroConfig]
    ELSE IF ~readOk THEN [ok |-> FALSE, cfg |-> ZeroConfig]
    ELSE IF f.kind = "garbage" THEN [ok |-> FALSE, cfg |-> ZeroConfig]
    ELSE [ok |-> TRUE, cfg |-> Unmarshal(f.obj)]

\* outcomes of Config.Save: written; failed before the file was opened;
\* failed after os.WriteFile truncated the file
SaveOutcomes == {"ok", "fail", "truncated"}

Save(c, f, saveOut) ==
    IF saveOut = "ok" THEN [ok |-> TRUE, file |-> JsonFile(Marshal(c))]
    ELSE IF saveOut = "fail" THEN [ok |-> FALSE, file |-> f]
    ELSE [ok |-> FALSE, file |-> FileGarbage]

\* net/url: the request URL "https://" + space + path must parse
UrlParses(space) == space # BadSpace

(***************************************************************************)
(* internal/auth: RefreshToken                                             *)
(***************************************************************************)
\* what the token endpoint may answer to the refresh POST
TokenPairs == {<<"t2", "r2">>, <<"t1", "r1">>, <<"", "">>}
TokenResponses ==
    {[kind |-> "transport", status |-> 0, parses |-> FALSE,
      access_token |-> "", refresh_token |-> ""]}
    \cup {[kind |-> "resp", status |-> s, parses |-> TRUE,
           access_token |-> "", refresh_token |-> ""] : s \in {400, 500}}
    \cup {[kind |-> "resp", status |-> StatusOK, parses |-> FALSE,
           access_token |-> "", refresh_token |-> ""]}
    \cup {[kind |-> "resp", status |-> StatusOK, parses |-> TRUE,
           access_token |-> p[1], refresh_token |-> p[2]] : p \in TokenPairs}

\* the result of one run of RefreshToken: err = "" is success; issued is
\* the token pair decoded from the token response, if one was decoded
RefreshRun(err, status, f, posted, sent, wrote, issued) ==
    [ev |-> "refresh", err |-> err, status |-> status, file |-> f,
     posted |-> posted, sent |-> sent, wrote |-> wrote, issued |-> issued]

NoTokens == <<"", "">>

\* the refresh POST sent without looking at the stored refresh token
RefreshTokenNoEmptyCheck(f, readOk, tr, saveOut) ==
    LET ld == Load(f, readOk) IN
    IF ~ld.ok THEN RefreshRun("LoadConfigFailed", 0, f, FALSE, "", FALSE, NoTokens)
    ELSE IF ~UrlParses(ld.cfg.Space)
        THEN RefreshRun("TransportError", 0, f, FALSE, ld.cfg.RefreshToken, FALSE, NoTokens)
    ELSE IF tr.kind = "transport"
        THEN RefreshRun("TransportError", 0, f, TRUE, ld.cfg.RefreshToken, FALSE, NoTokens)
    ELSE IF tr.status # StatusOK
        THEN RefreshRun("RefreshRejected", tr.status, f, TRUE, ld.cfg.RefreshToken, FALSE,
                        NoTokens)
    ELSE IF ~tr.parses
        THEN RefreshRun("TokenResponseParseError", tr.status, f, TRUE, ld.cfg.RefreshToken,
                        FALSE, NoTokens)
    ELSE
        LET cfg == [ld.cfg EXCEPT !.AccessToken = ToValidUTF8(tr.access_token),
                                  !.RefreshToken = ToValidUTF8(tr.refresh_token)]
            sv == Save(cfg, f, saveOut)
        IN  RefreshRun(IF sv.ok THEN "" ELSE "ConfigPersistError", tr.status, sv.file,
                       TRUE, ld.cfg.RefreshToken, saveOut # "fail",
                       <<ToValidUTF8(tr.access_token), ToValidUTF8(tr.refresh_token)>>)

\* the config saved before the status of the token response is looked at
RefreshTokenSavesFirst(f, readOk, tr, saveOut) ==
    LET ld == Load(f, readOk)
        cfg == [ld.cfg EXCEPT !.AccessToken = ToValidUTF8(tr.access_token),
                              !.RefreshToken = ToValidUTF8(tr.refresh_token)]
        sv == Save(cfg, f, saveOut)
    IN
    IF ~ld.ok THEN RefreshRun("LoadConfigFailed", 0, f, FALSE, "", FALSE, NoTokens)
    ELSE IF ld.cfg.RefreshToken = ""
        THEN RefreshRun("NoRefreshToken", 0, f, FALSE, "", FALSE, NoTokens)
    ELSE IF ~UrlParses(ld.cfg.Space)
        THEN RefreshRun("TransportError", 0, f, FALSE, ld.cfg.RefreshToken, FALSE, NoTokens)
    ELSE IF tr.kind = "transport"
        THEN RefreshRun("TransportError", 0, f, TRUE, ld.cfg.RefreshToken, FALSE, NoTokens)
    ELSE IF tr.status # StatusOK
        THEN RefreshRun("RefreshRejected", tr.status, sv.file, TRUE,
                        ld.cfg.RefreshToken, saveOut # "fail", NoTokens)
    ELSE IF ~tr.parses
        THEN RefreshRun("TokenResponseParseError", tr.status, sv.file, TRUE,
                        ld.cfg.RefreshToken, saveOut # "fail", NoTokens)
    ELSE RefreshRun(IF sv.ok THEN "" ELSE "ConfigPersistError", tr.status, sv.file,
                    TRUE, ld.cfg.RefreshToken, saveOut # "fail",
                    <<ToValidUTF8(tr.access_token), ToValidUTF8(tr.refresh_token)>>)

\* the new access token saved, the refresh token left as it was
RefreshTokenKeepsRefreshToken(f, readOk, tr, saveOut) ==
    LET ld == Load(f, readOk) IN
    IF ~ld.ok THEN RefreshRun("LoadConfigFailed", 0, f, FALSE, "", FALSE, NoTokens)
    ELSE IF ld.cfg.RefreshToken = ""
        THEN RefreshRun("NoRefreshToken", 0, f, FALSE, "", FALSE, NoTokens)
    ELSE IF ~UrlParses(ld.cfg.Space)
        THEN RefreshRun("TransportError", 0, f, FALSE, ld.cfg.RefreshToken, FALSE, NoTokens)
    ELSE IF tr.kind = "transport"
        THEN RefreshRun("TransportError", 0, f, TRUE, ld.cfg.RefreshToken, FALSE, NoTokens)
    ELSE IF tr.status # StatusOK
        THEN RefreshRun("RefreshRejected", tr.status, f, TRUE, ld.cfg.RefreshToken, FALSE,
                        NoTokens)
    ELSE IF ~tr.parses
        THEN RefreshRun("TokenResponseParseError", tr.status, f, TRUE, ld.cfg.RefreshToken,
                        FALSE, NoTokens)
    ELSE
        LET cfg == [ld.cfg EXCEPT !.AccessToken = ToValidUTF8(tr.access_token)]
            sv == Save(cfg, f, saveOut)
        IN  RefreshRun(IF sv.ok THEN "" ELSE "ConfigPersistError", tr.status, sv.file,
                       TRUE, ld.cfg.RefreshToken, saveOut # "fail",
                       <<ToValidUTF8(tr.access_token), ToValidUTF8(tr.refresh_token)>>)

RefreshToken(f, readOk, tr, saveOut) ==
    LET ld == Load(f, readOk) IN
    IF ~ld.ok THEN RefreshRun("LoadConfigFailed", 0, f, FALSE, "", FALSE, NoTokens)
    ELSE IF ld.cfg.RefreshToken = ""
        THEN RefreshRun("NoRefreshToken", 0, f, FALSE, "", FALSE, NoTokens)
    ELSE IF ~UrlParses(ld.cfg.Space)
        THEN RefreshRun("TransportError", 0, f, FALSE, ld.cfg.RefreshToken, FALSE, NoTokens)
    ELSE IF tr.kind = "transport"
        THEN RefreshRun("TransportError", 0, f, TRUE, ld.cfg.RefreshToken, FALSE, NoTokens)
    ELSE IF tr.status # StatusOK
        THEN RefreshRun("RefreshRejected", tr.status, f, TRUE, ld.cfg.RefreshToken, FALSE,
                        NoTokens)
    ELSE IF ~tr.parses
        THEN RefreshRun("TokenResponseParseError", tr.status, f, TRUE, ld.cfg.RefreshToken,
                        FALSE, NoTokens)
    ELSE
        LET cfg == [ld.cfg EXCEPT !.AccessToken = ToValidUTF8(tr.access_token),
                                  !.RefreshToken = ToValidUTF8(tr.refresh_token)]
            sv == Save(cfg, f, saveOut)
        IN  RefreshRun(IF sv.ok THEN "" ELSE "ConfigPersistError", tr.status, sv.file,
                       TRUE, ld.cfg.RefreshToken, saveOut # "fail",
                       <<ToValidUTF8(tr.access_token), ToValidUTF8(tr.refresh_token)>>)

(***************************************************************************)
(* internal/backlog: Client                                                *)
(***************************************************************************)
\* strings.Contains on word sequences
Contains(h, p) ==
    \E i \in 0..(Len(h) - Len(p)) : SubSeq(h, i + 1, i + Len(p)) = p

\* what the target endpoint may answer to one call
Responses ==
    {[out |-> o, status |-> 0, hdr |-> HdrNone, body |-> ""] : o \in {"transport"}}
    \cup {[out |-> "readfail", status |-> StatusOK, hdr |-> HdrNone, body |-> ""]}
    \cup {[out |-> "resp", status |-> s, hdr |-> HdrNone, body |-> b] :
            s \in {StatusOK, StatusCreated} \cup OtherStatuses, b \in Bodies}
    \cup {[out |-> "resp", status |-> s, hdr |-> HdrExpired, body |-> "b1"] :
            s \in {StatusOK, 404}}
    \cup {[out |-> "resp", status |-> StatusUnauthorized, hdr |-> h, body |-> "b1"] :
            h \in Headers}

\* doPatchRequest written with the status test of doPostRequest
SuccessStatusesPatchAsPost(fn) ==
    IF fn = "doRequest" THEN {StatusOK} ELSE {StatusCreated, StatusOK}

\* the statuses each request function returns the body for
SuccessStatuses(fn) ==
    IF fn = "doPostRequest" THEN {StatusCreated, StatusOK} ELSE {StatusOK}

\* a 401 matched on the common prefix of the two challenge texts
ClassifyOnPrefix(fn, r) ==
    IF r.out = "transport" THEN "TransportError"
    ELSE IF r.out = "readfail" THEN "BodyReadError"
    ELSE IF r.status = StatusUnauthorized THEN
        IF Contains(r.hdr, <<"The", "access", "token">>) THEN "Expired"
        ELSE "AuthenticationFailed"
    ELSE IF r.status \notin SuccessStatuses(fn) THEN "ApiRequestFailed"
    ELSE "OK"

\* the error of httpClient.Do ignored, the empty response read as a 401
\* that asks for a refresh
ClassifyIgnoresDoError(fn, r) ==
    IF r.out = "readfail" THEN "BodyReadError"
    ELSE IF r.out = "transport" \/ r.status = StatusUnauthorized THEN
        IF r.out = "transport" \/ Contains(r.hdr, ExpiredPhrase) THEN "Expired"
        ELSE IF Contains(r.hdr, InvalidPhrase) THEN "InvalidToken"
        ELSE "AuthenticationFailed"
    ELSE IF r.status \notin SuccessStatuses(fn) THEN "ApiRequestFailed"
    ELSE "OK"

\* the branch a request function takes on the outcome r of httpClient.Do
Classify(fn, r) ==
    IF r.out = "transport" THEN "TransportError"
    ELSE IF r.out = "readfail" THEN "BodyReadError"
    ELSE IF r.status = StatusUnauthorized THEN
        IF Contains(r.hdr, ExpiredPhrase) THEN "Expired"
        ELSE IF Contains(r.hdr, InvalidPhrase) THEN "InvalidToken"
        ELSE "AuthenticationFailed"
    ELSE IF r.status \notin SuccessStatuses(fn) THEN "ApiRequestFailed"
    ELSE "OK"

\* only a rejection by the token endpoint taken as a failed refresh
RefreshFailedOnlyRejected(rf) == rf.err = "RefreshRejected"

\* err != nil after auth.RefreshToken()
RefreshFailed(rf) == rf.err # ""

\* the reloaded config dropped, the client keeps the one it had
ReloadCfgKeepsOld(old, loaded) == old

\* c.cfg = cfg after the reload that follows a refresh
ReloadCfg(old, loaded) == loaded

\* NewClient keeps the config it loaded before the refresh
ReloadedConfigStale(old, loaded) == old

\* cfg, err = config.Load() after the refresh in NewClient
ReloadedConfig(old, loaded) == loaded

\* the retry issued without the form data
RetryArgsDropsData(r) == [r EXCEPT !.data = ""]

\* the arguments of the recursive call that retries the request
RetryArgs(r) == r

\* the expiry instant itself taken as not yet expired
NeedsRefreshStrict(cfg, t) == cfg.ExpiresAt > 0 /\ t > cfg.ExpiresAt

\* cfg.ExpiresAt > 0 && time.Now().UnixMilli() >= cfg.ExpiresAt
NeedsRefresh(cfg, t) == cfg.ExpiresAt > 0 /\ t >= cfg.ExpiresAt

\* either token taken as a sign of a login
IsLoggedInAnyToken(cfg) == cfg.AccessToken # "" \/ cfg.RefreshToken # ""

\* cfg.AccessToken == "" is "not logged in"
IsLoggedIn(cfg) == cfg.AccessToken # ""

Ok(body) == [kind |-> "ok", err |-> "", cause |-> "", status |-> 0, body |-> body]
Err(err, cause, status, body) ==
    [kind |-> "error", err |-> err, cause |-> cause, status |-> status, body |-> body]

CallEv(r) ==
    [ev |-> "call", fn |-> req.fn, method |-> req.method, path |-> req.path,
     data |-> req.data, auth |-> client.cfg.AccessToken,
     out |-> r.out, status |-> r.status, hdr |-> r.hdr, body |-> r.body]
LoadEv(ld) == [ev |-> "load", ok |-> ld.ok, cfg |-> ld.cfg]

NumEv(l, e) == Cardinality({i \in 1..Len(l) : l[i].ev = e})

\* the request function saves the client's config when it returns
FinishSavesConfig(res, l, f) ==
    /\ pc' = "done"
    /\ result' = res
    /\ log' = l
    /\ file' = JsonFile(Marshal(client.cfg))
    /\ UNCHANGED <<client, req>>

\* a request function returns res; the file is as the refresh, if one ran,
\* left it
Finish(res, l, f) ==
    /\ pc' = "done"
    /\ result' = res
    /\ log' = l
    /\ file' = f
    /\ UNCHANGED <<client, req>>

\* one invocation of a request function, up to its recursive call
Frame(fn, r, readOk1, tr, saveOut, readOk2) ==
    /\ pc = "call"
    /\ req.fn = fn
    /\ NumEv(log, "call") < MaxCalls
    /\ fileAtEntry' = file
    /\ UNCHANGED now
    /\ UNCHANGED authVars
    /\ IF ~UrlParses(client.cfg.Space)
       THEN Finish(Err("BadURL", "", 0, ""), log, file)
       ELSE
        LET c == Classify(fn, r)
            l1 == Append(log, CallEv(r))
        IN
        IF c = "OK" THEN Finish(Ok(r.body), l1, file)
        ELSE IF c = "ApiRequestFailed"
            THEN Finish(Err(c, "", r.status, r.body), l1, file)
        ELSE IF c = "AuthenticationFailed"
            THEN Finish(Err(c, "", r.status, ""), l1, file)
        ELSE IF c # "Expired" THEN Finish(Err(c, "", 0, ""), l1, file)
        ELSE
            LET rf == RefreshToken(file, readOk1, tr, saveOut)
                l2 == Append(l1, rf)
                ld == Load(rf.file, readOk2)
                l3 == Append(l2, LoadEv(ld))
            IN
            IF RefreshFailed(rf) THEN Finish(Err("RefreshFailed", rf.err, rf.status, ""), l2, rf.file)
            ELSE IF ~ld.ok THEN Finish(Err("ReloadFailed", "", 0, ""), l3, rf.file)
            ELSE /\ client' = [client EXCEPT !.cfg = ReloadCfg(client.cfg, ld.cfg)]
                 /\ req' = RetryArgs(req)
                 /\ pc' = "call"
                 /\ log' = l3
                 /\ file' = rf.file
                 /\ UNCHANGED result

\* the inputs of the refresh a request function may run: the reads of the
\* config file, the token endpoint's answer and the outcome of the save.
\* An input that the run does not reach is fixed to one value.
TransportFailure ==
    [kind |-> "transport", status |-> 0, parses |-> FALSE,
     access_token |-> "", refresh_token |-> ""]
IsTokenOK(tr) == tr.kind = "resp" /\ tr.status = StatusOK /\ tr.parses
NoRefreshInputs ==
    [readOk1 |-> FALSE, tr |-> TransportFailure, saveOut |-> "ok", readOk2 |-> TRUE]
RefreshInputs ==
    {i \in [readOk1 : BOOLEAN, tr : TokenResponses, saveOut : SaveOutcomes,
            readOk2 : BOOLEAN] :
        /\ ~i.readOk1 => i.tr = TransportFailure
        /\ ~IsTokenOK(i.tr) => i.saveOut = "ok"
        /\ i.saveOut # "ok" => i.readOk2}

doRequest ==
    /\ pc = "call"
    /\ req.fn = "doRequest"
    /\ \E r \in Responses, i \in RefreshInputs :
        /\ Classify("doRequest", r) = "Expired" \/ i = NoRefreshInputs
        /\ Frame("doRequest", r, i.readOk1, i.tr, i.saveOut, i.readOk2)

doPostRequest ==
    /\ pc = "call"
    /\ req.fn = "doPostRequest"
    /\ \E r \in Responses, i \in RefreshInputs :
        /\ Classify("doPostRequest", r) = "Expired" \/ i = NoRefreshInputs
        /\ Frame("doPostRequest", r, i.readOk1, i.tr, i.saveOut, i.readOk2)

doPatchRequest ==
    /\ pc = "call"
    /\ req.fn = "doPatchRequest"
    /\ \E r \in Responses, i \in RefreshInputs :
        /\ Classify("doPatchRequest", r) = "Expired" \/ i = NoRefreshInputs
        /\ Frame("doPatchRequest", r, i.readOk1, i.tr, i.saveOut, i.readOk2)

\* a public method of a constructed client starts a request
Begin(fn, method, path, data) ==
    /\ pc = "ready"
    /\ pc' = "call"
    /\ req' = [fn |-> fn, method |-> method, path |-> path, data |-> data]
    /\ log' = <<>>
    /\ result' = NoResult
    /\ fileAtEntry' = file
    /\ UNCHANGED <<file, now, client>>
    /\ UNCHANGED authVars

GetIssue == Begin("doRequest", "GET", IssuePath, "")
AddComment == Begin("doPostRequest", "POST", CommentsPath, CommentData)
UpdateIssue == Begin("doPatchRequest", "PATCH", IssuePath, UpdateData)

\* one run of NewClient on the given reads, token response and save outcome
Construct(readOk, i) ==
    LET ld == Load(file, readOk)
        l1 == <<LoadEv(ld)>>
        rf == RefreshToken(file, i.readOk1, i.tr, i.saveOut)
        l2 == Append(l1, rf)
        ld2 == Load(rf.file, i.readOk2)
        l3 == Append(l2, LoadEv(ld2))
        fail(res, l, f) ==
            /\ result' = res
            /\ log' = l
            /\ file' = f
            /\ client' = NoClient
        built(cfg, l, f) ==
            /\ result' = Ok("")
            /\ log' = l
            /\ file' = f
            /\ client' = [present |-> TRUE, cfg |-> cfg]
    IN
    /\ (ld.ok /\ IsLoggedIn(ld.cfg) /\ NeedsRefresh(ld.cfg, now)) \/ i = NoRefreshInputs
    /\ pc' = "constructed"
    /\ fileAtEntry' = file
    /\ UNCHANGED <<now, req>>
    /\ UNCHANGED authVars
    /\ IF ~ld.ok THEN fail(Err("LoadConfigFailed", "", 0, ""), l1, file)
       ELSE IF ~IsLoggedIn(ld.cfg) THEN fail(Err("NotAuthenticated", "", 0, ""), l1, file)
       ELSE IF ~NeedsRefresh(ld.cfg, now) THEN built(ld.cfg, l1, file)
       ELSE IF RefreshFailed(rf) THEN fail(Err("TokenRefreshFailed", rf.err, rf.status, ""), l2, rf.file)
       ELSE IF ~ld2.ok THEN fail(Err("ReloadFailed", "", 0, ""), l3, rf.file)
       ELSE built(ReloadedConfig(ld.cfg, ld2.cfg), l3, rf.file)

NewClient ==
    /\ pc = "start"
    /\ \E readOk \in BOOLEAN, i \in RefreshInputs : Construct(readOk, i)

\* the caller takes the result of NewClient or of a request
Return ==
    /\ pc \in {"constructed", "done"}
    /\ pc' = IF client.present THEN "ready" ELSE "start"
    /\ req' = NoReq
    /\ log' = <<>>
    /\ result' = NoResult
    /\ fileAtEntry' = file
    /\ UNCHANGED <<file, now, client>>
    /\ UNCHANGED authVars

\* the process ends; the next CLI invocation starts without a client
Exit ==
    /\ pc \in {"ready", "call", "done"}
    /\ pc' = "start"
    /\ client' = NoClient
    /\ req' = NoReq
    /\ log' = <<>>
    /\ result' = NoResult
    /\ fileAtEntry' = file
    /\ UNCHANGED <<file, now>>
    /\ UNCHANGED authVars

Tick ==
    /\ pc \in {"start", "ready"}
    /\ now < MaxTime
    /\ now' = now + 1
    /\ UNCHANGED <<file, client, pc, req, log, result, fileAtEntry>>
    /\ UNCHANGED authVars

\* config.ClientID and config.ClientSecret as set by the build
BuiltWithCredentials == [ClientID |-> "id", ClientSecret |-> "secret"]

\* no auth command is running
NoLogin ==
    [imErr |-> "", value |-> "", imDone |-> FALSE, prompted |-> FALSE,
     portBusy |-> FALSE, shown |-> FALSE,
     space |-> "", nonce |-> "", got |-> [code |-> "", err |-> "none"],
     cancelled |-> FALSE, code |-> "", status |-> 0, token |-> <<"", "">>,
     posts |-> 0, writes |-> 0, result |-> NoResult, before |-> FileAbsent]
IdleUi == [running |-> FALSE, msgs |-> {}, sm |-> [done |-> FALSE, code |-> "", err |-> ""]]
NoOp == [op |-> "none"]

AuthIdle ==
    /\ logins = 0
    /\ lpc = "idle"
    /\ login = NoLogin
    /\ listener = "none"
    /\ chan = <<>>
    /\ senders = <<>>
    /\ timer = "off"
    /\ reader = "off"
    /\ ui = IdleUi
    /\ last = NoOp

Credentials ==
    [Space : Spaces, AccessToken : {"", "t1"}, RefreshToken : {"", "r1"},
     ExpiresAt : ExpiryValues]

InitFiles ==
    {FileAbsent, FileGarbage, JsonFile([access_token |-> "t1"])}
    \cup {JsonFile(Marshal(c)) : c \in Credentials}

Init ==
    /\ file \in InitFiles
    /\ now = 1
    /\ client = NoClient
    /\ pc = "start"
    /\ req = NoReq
    /\ log = <<>>
    /\ result = NoResult
    /\ fileAtEntry = file
    /\ build = BuiltWithCredentials
    /\ AuthIdle

Next ==
    \/ NewClient
    \/ GetIssue
    \/ AddComment
    \/ UpdateIssue
    \/ doRequest
    \/ doPostRequest
    \/ doPatchRequest
    \/ Return
    \/ Exit
    \/ Tick

Spec == Init /\ [][Next]_vars

TypeOK ==
    /\ pc \in {"start", "confirm", "confirmed", "constructed", "ready", "call", "done"}
    /\ now \in 1..MaxTime
    /\ client.present \in BOOLEAN
    /\ NumEv(log, "call") <= MaxCalls

(***************************************************************************)
(* internal/auth: Login, Logout, and RefreshToken run on its own          *)
(*                                                                         *)
(* One "bgl auth login" process is followed through its goroutines: the   *)
(* main flow (lpc), the callback handlers and the Serve goroutine          *)
(* (senders), the timer, the goroutine of waitForResult (reader) and the  *)
(* event loop of the spinner program (ui).  chan is resultChan.           *)
(***************************************************************************)
\* callback requests and Serve failures followed within one login attempt
MaxCallbacks == 2
\* login attempts followed from the empty store
MaxLogins == 2

\* make(chan authResult, 1)
ResultChanCap == 1

StatusBadRequest == 400

\* what the user may have typed when Enter is pressed
TypedSpaces ==
    {"sp.backlog.com", BadSpace, "sp.example.com", "backlog.com",
     "sp.backlog.com.evil.io", "sp.backlog.jp ", "SP.BACKLOG.COM", ""}
\* a string as the sequence of the pieces it is written with
Parts(s) ==
    CASE s = "sp.backlog.com" -> <<"sp", ".backlog", ".com">>
      [] s = BadSpace -> <<"my space", ".backlog", ".jp">>
      [] s = ".backlog.com" -> <<".backlog", ".com">>
      [] s = ".backlog.jp" -> <<".backlog", ".jp">>
      [] s = "sp.example.com" -> <<"sp", ".example", ".com">>
      [] s = "backlog.com" -> <<"backlog", ".com">>
      [] s = "sp.backlog.com.evil.io" -> <<"sp", ".backlog", ".com", ".evil", ".io">>
      [] s = "sp.backlog.jp " -> <<"sp", ".backlog", ".jp", " ">>
      [] s = "SP.BACKLOG.COM" -> <<"SP", ".BACKLOG", ".COM">>
      [] s = "" -> <<>>
      [] OTHER -> <<s>>
\* strings.HasSuffix: s is at least as long as suffix and its tail of that
\* length is suffix
HasSuffix(s, suffix) ==
    LET a == Parts(s)
        b == Parts(suffix)
    IN  /\ Len(a) >= Len(b)
        /\ SubSeq(a, Len(a) - Len(b) + 1, Len(a)) = b

ValidateSpace(space) ==
    IF ~HasSuffix(space, ".backlog.com") /\ ~HasSuffix(space, ".backlog.jp")
    THEN "InvalidSpaceFormat"
    ELSE ""

\* config.ClientID and config.ClientSecret are set at build time
Builds ==
    {BuiltWithCredentials,
     [ClientID |-> "", ClientSecret |-> "secret"],
     [ClientID |-> "id", ClientSecret |-> ""]}

Nonce == "n1"
\* the callback requests followed: a redirect with a code, one without,
\* a request with a foreign state, and a request with no query at all
CallbackRequests ==
    {[state |-> Nonce, code |-> "c1"], [state |-> Nonce, code |-> "c2"],
     [state |-> Nonce, code |-> ""], [state |-> "bad", code |-> "c1"],
     [state |-> "", code |-> ""]}
Keys == {"ctrl+c", "q", "x"}

AuthResult(code, err) == [code |-> code, err |-> err]

\* the authResult the callback handler sends for a request
HandlerResult(st, code, nonce) ==
    IF st # nonce THEN AuthResult("", "StateMismatch")
    ELSE IF code = "" THEN AuthResult("", "MissingAuthorizationCode")
    ELSE AuthResult(code, "")

\* the status the handler answers with once it gets there
HandlerStatus(r) == IF r.err # "" THEN StatusBadRequest ELSE StatusOK

KeyMsg(k) == [type |-> "key", key |-> k, code |-> "", err |-> ""]
ResultMsg(r) == [type |-> "result", key |-> "", code |-> r.code, err |-> r.err]
QuitMsg == [type |-> "quit", key |-> "", code |-> "", err |-> ""]

HasRoom == Len(chan) < ResultChanCap
LoginRunning == lpc \in {"waiting", "exchange", "save", "returned"}

AuthReset ==
    /\ lpc' = "idle"
    /\ login' = NoLogin
    /\ listener' = "none"
    /\ chan' = <<>>
    /\ senders' = <<>>
    /\ timer' = "off"
    /\ reader' = "off"
    /\ ui' = IdleUi

\* Login returns before the callback server was started, leaving l
LoginFails(l) ==
    /\ lpc' = "returned"
    /\ login' = l
    /\ UNCHANGED <<listener, chan, senders, timer, reader, ui>>

\* Login returns res after the callback server was started; the deferred
\* shutdownCancel lets the shutdown goroutine run
LoginReturns(res) ==
    /\ lpc' = "returned"
    /\ login' = [login EXCEPT !.result = res]

\* bgl auth login: the input program starts
LoginPrompt ==
    /\ lpc = "idle"
    /\ logins < MaxLogins
    /\ logins' = logins + 1
    /\ lpc' = "input"
    /\ login' = [NoLogin EXCEPT !.before = file]
    /\ last' = NoOp
    /\ UNCHANGED <<file, build, listener, chan, senders, timer, reader, ui>>
    /\ UNCHANGED clientVars

\* Enter in the input program with v typed in the text input: a value that
\* fails ValidateSpace is shown as an error, another one ends the program
\* with tea.Quit
InputEnter(v) ==
    /\ lpc = "input"
    /\ ~login.imDone
    /\ login' = [login EXCEPT !.imErr = ValidateSpace(v),
                              !.value = v,
                              !.imDone = ValidateSpace(v) = ""]
    /\ UNCHANGED <<file, build, logins, last>>
    /\ UNCHANGED <<lpc, listener, chan, senders, timer, reader, ui>>
    /\ UNCHANGED clientVars

\* a key handled by the input program after the Enter that returned tea.Quit
\* and before the quit message: it goes to the text input, here ctrl+u,
\* which empties it
InputLateKey ==
    /\ lpc = "input"
    /\ login.imDone
    /\ login.value # ""
    /\ login' = [login EXCEPT !.value = "", !.imErr = ""]
    /\ UNCHANGED <<file, build, logins, last>>
    /\ UNCHANGED <<lpc, listener, chan, senders, timer, reader, ui>>
    /\ UNCHANGED clientVars

\* the client secret not looked at
MissingCredentialsIdOnly(b) == b.ClientID = ""

\* config.ClientID == "" || config.ClientSecret == ""
MissingCredentials(b) == b.ClientID = "" \/ b.ClientSecret = ""

\* the error of net.Listen not looked at
ListenFailsNever(busy) == FALSE

\* net.Listen on the callback port fails when the port is in use
ListenFails(busy) == busy

\* the input program has ended on Enter: Login takes the value of the text
\* input as the space and goes on up to the start of the spinner program
InputQuit(stateOk, busy) ==
    /\ lpc = "input"
    /\ login.imDone
    /\ UNCHANGED <<file, build, logins, last>>
    /\ UNCHANGED clientVars
    /\ LET l == [login EXCEPT !.space = login.value, !.prompted = TRUE] IN
       IF MissingCredentials(build)
       THEN LoginFails([l EXCEPT !.result = Err("MissingClientCredentials", "", 0, "")])
       ELSE IF ~stateOk
       THEN LoginFails([l EXCEPT !.result = Err("StateGenerationFailed", "", 0, "")])
       ELSE IF ListenFails(busy)
       THEN LoginFails([l EXCEPT !.nonce = Nonce, !.portBusy = busy,
                                 !.result = Err("CallbackPortUnavailable", "", 0, "")])
       ELSE /\ lpc' = "waiting"
            /\ login' = [l EXCEPT !.nonce = Nonce, !.portBusy = busy, !.shown = TRUE]
            /\ listener' = "open"
            /\ chan' = <<>>
            /\ senders' = <<>>
            /\ timer' = "armed"
            /\ reader' = "waiting"
            /\ ui' = [IdleUi EXCEPT !.running = TRUE]

\* ctrl+c or esc in the input program
InputCancel ==
    /\ lpc = "input"
    /\ LoginFails([login EXCEPT !.result = Err("Cancelled", "", 0, "")])
    /\ UNCHANGED <<file, build, logins, last>>
    /\ UNCHANGED clientVars

\* the input program fails to run
InputError ==
    /\ lpc = "input"
    /\ LoginFails([login EXCEPT !.result = Err("InputError", "", 0, "")])
    /\ UNCHANGED <<file, build, logins, last>>
    /\ UNCHANGED clientVars

\* the callback handler on one request: the send on resultChan blocks
\* while the buffer is full
Callback(st, code) ==
    /\ LoginRunning
    /\ listener = "open"
    /\ Len(senders) < MaxCallbacks
    /\ LET r == HandlerResult(st, code, login.nonce) IN
        /\ senders' = Append(senders,
              [kind |-> "handler", state |-> st, code |-> code, res |-> r,
               sent |-> HasRoom,
               http |-> IF r.err = "" THEN StatusOK
                        ELSE IF HasRoom THEN StatusBadRequest ELSE 0])
        /\ chan' = IF HasRoom THEN Append(chan, r) ELSE chan
    /\ UNCHANGED <<file, build, logins, lpc, login, listener, timer, reader, ui, last>>
    /\ UNCHANGED clientVars

\* a blocked send on resultChan goes through
BlockedSend(i) ==
    /\ LoginRunning
    /\ i \in 1..Len(senders)
    /\ ~senders[i].sent
    /\ HasRoom
    /\ chan' = Append(chan, senders[i].res)
    /\ senders' = [senders EXCEPT ![i].sent = TRUE,
                                  ![i].http = IF senders[i].kind = "handler"
                                              THEN HandlerStatus(senders[i].res)
                                              ELSE 0]
    /\ UNCHANGED <<file, build, logins, lpc, login, listener, timer, reader, ui, last>>
    /\ UNCHANGED clientVars

\* server.Serve returns an error other than ErrServerClosed
ServeError ==
    /\ LoginRunning
    /\ listener = "open"
    /\ Len(senders) < MaxCallbacks
    /\ listener' = "failed"
    /\ senders' = Append(senders,
          [kind |-> "serve", state |-> "", code |-> "",
           res |-> AuthResult("", "ServeError"), sent |-> HasRoom, http |-> 0])
    /\ chan' = IF HasRoom THEN Append(chan, AuthResult("", "ServeError")) ELSE chan
    /\ UNCHANGED <<file, build, logins, lpc, login, timer, reader, ui, last>>
    /\ UNCHANGED clientVars

\* the timer goroutine ends without sending
TimerFireSendsNothing ==
    /\ LoginRunning
    /\ timer = "armed"
    /\ timer' = "fired"
    /\ UNCHANGED <<file, build, logins, lpc, login, listener, chan, senders, reader, ui, last>>
    /\ UNCHANGED clientVars

\* the five minutes are over: select with default
TimerFire ==
    /\ LoginRunning
    /\ timer = "armed"
    /\ timer' = "fired"
    /\ chan' = IF HasRoom THEN Append(chan, AuthResult("", "AuthenticationTimeout"))
               ELSE chan
    /\ UNCHANGED <<file, build, logins, lpc, login, listener, senders, reader, ui, last>>
    /\ UNCHANGED clientVars

\* the command of waitForResult receives from resultChan, once; its
\* message reaches the spinner program if that is still running
WaitForResult ==
    /\ LoginRunning
    /\ reader = "waiting"
    /\ chan # <<>>
    /\ reader' = "done"
    /\ chan' = Tail(chan)
    /\ login' = [login EXCEPT !.got = Head(chan)]
    /\ ui' = IF ui.running
             THEN [ui EXCEPT !.msgs = @ \cup {ResultMsg(Head(chan))}]
             ELSE ui
    /\ UNCHANGED <<file, build, logins, lpc, listener, senders, timer, last>>
    /\ UNCHANGED clientVars

\* spinnerModel.Update on the message m
Update(sm, m) ==
    IF m.type = "key"
    THEN IF m.key = "ctrl+c" \/ m.key = "q"
         THEN [sm EXCEPT !.err = "Cancelled"]
         ELSE sm
    ELSE [done |-> TRUE, code |-> m.code, err |-> m.err]

\* whether Update returned tea.Quit
Quits(m) == m.type = "result" \/ (m.type = "key" /\ m.key \in {"ctrl+c", "q"})

\* the event loop takes the message m and runs Update on it; the quit
\* message of a returned tea.Quit is on its way to the event loop
Handle(m) ==
    /\ ui' = [ui EXCEPT !.sm = Update(ui.sm, m),
                        !.msgs = (@ \ {m}) \cup (IF Quits(m) THEN {QuitMsg} ELSE {})]
    /\ login' = [login EXCEPT !.cancelled = @ \/ (m.type = "key" /\ Quits(m))]

\* a key is pressed and the event loop takes it
KeyPress(k) ==
    /\ lpc = "waiting"
    /\ ui.running
    /\ Handle(KeyMsg(k))
    /\ UNCHANGED <<file, build, logins, lpc, listener, chan, senders, timer, reader, last>>
    /\ UNCHANGED clientVars

\* the event loop takes the message of waitForResult
SpinnerUpdate ==
    /\ lpc = "waiting"
    /\ ui.running
    /\ \E m \in ui.msgs :
        /\ m.type = "result"
        /\ Handle(m)
    /\ UNCHANGED <<file, build, logins, lpc, listener, chan, senders, timer, reader, last>>
    /\ UNCHANGED clientVars

\* the event loop takes the quit message: Run returns the final model
SpinnerQuit ==
    /\ lpc = "waiting"
    /\ ui.running
    /\ QuitMsg \in ui.msgs
    /\ ui' = [ui EXCEPT !.running = FALSE, !.msgs = {}]
    /\ IF ui.sm.err # ""
       THEN LoginReturns(Err(ui.sm.err, "", 0, ""))
       ELSE /\ lpc' = "exchange"
            /\ UNCHANGED login
    /\ UNCHANGED <<file, build, logins, listener, chan, senders, timer, reader, last>>
    /\ UNCHANGED clientVars

\* the spinner program fails to run
SpinnerError ==
    /\ lpc = "waiting"
    /\ ui.running
    /\ ui.msgs = {}
    /\ ui.sm = IdleUi.sm
    /\ ui' = [ui EXCEPT !.running = FALSE, !.msgs = {}]
    /\ LoginReturns(Err("SpinnerError", "", 0, ""))
    /\ UNCHANGED <<file, build, logins, listener, chan, senders, timer, reader, last>>
    /\ UNCHANGED clientVars

\* what the token endpoint may answer to the exchange POST: as to a refresh,
\* or with a 200 response that has an access token and no refresh token
ExchangeResponses ==
    TokenResponses
    \cup {[kind |-> "resp", status |-> StatusOK, parses |-> TRUE,
           access_token |-> "t1", refresh_token |-> ""]}

\* http.PostForm sends nothing to a URL that does not parse or has no host
CanPost(space) == UrlParses(space) /\ space # ""

\* the status of the token response not looked at before it is decoded
exchangeCodeIgnoresStatus(space, code, tr) ==
    IF ~CanPost(space)
        THEN [err |-> "TransportError", status |-> 0, posted |-> FALSE, token |-> NoTokens]
    ELSE IF tr.kind = "transport"
        THEN [err |-> "TransportError", status |-> 0, posted |-> TRUE, token |-> NoTokens]
    ELSE IF ~tr.parses
        THEN [err |-> "TokenResponseParseError", status |-> tr.status, posted |-> TRUE,
              token |-> NoTokens]
    ELSE [err |-> "", status |-> tr.status, posted |-> TRUE,
          token |-> <<ToValidUTF8(tr.access_token), ToValidUTF8(tr.refresh_token)>>]

\* exchangeCode on the token endpoint's answer tr
exchangeCode(space, code, tr) ==
    IF ~CanPost(space)
        THEN [err |-> "TransportError", status |-> 0, posted |-> FALSE, token |-> NoTokens]
    ELSE IF tr.kind = "transport"
        THEN [err |-> "TransportError", status |-> 0, posted |-> TRUE, token |-> NoTokens]
    ELSE IF tr.status # StatusOK
        THEN [err |-> "TokenRequestFailed", status |-> tr.status, posted |-> TRUE,
              token |-> NoTokens]
    ELSE IF ~tr.parses
        THEN [err |-> "TokenResponseParseError", status |-> tr.status, posted |-> TRUE,
              token |-> NoTokens]
    ELSE [err |-> "", status |-> tr.status, posted |-> TRUE,
          token |-> <<ToValidUTF8(tr.access_token), ToValidUTF8(tr.refresh_token)>>]

\* Login after the spinner program: the code of the final model is exchanged
ExchangeCode(tr) ==
    /\ lpc = "exchange"
    /\ LET x == exchangeCode(login.space, ui.sm.code, tr)
           l == [login EXCEPT !.posts = @ + (IF x.posted THEN 1 ELSE 0),
                              !.code = IF x.posted THEN ui.sm.code ELSE @,
                              !.status = x.status,
                              !.token = x.token]
       IN  IF x.err # ""
           THEN /\ lpc' = "returned"
                /\ login' = [l EXCEPT !.result = Err("ExchangeCodeFailed", x.err, x.status, "")]
           ELSE /\ lpc' = "save"
                /\ login' = l
    /\ UNCHANGED <<file, build, logins, listener, chan, senders, timer, reader, ui, last>>
    /\ UNCHANGED clientVars

\* the config Login saves built anew, the loaded one dropped
LoginConfigFresh(cfg, space, token) ==
    [ZeroConfig EXCEPT !.Space = space, !.AccessToken = token[1], !.RefreshToken = token[2]]

\* the config Login saves: space and both tokens set, the rest as loaded
LoginConfig(cfg, space, token) ==
    [cfg EXCEPT !.Space = space, !.AccessToken = token[1], !.RefreshToken = token[2]]

\* Login loads the config, puts the space and the tokens in, and saves it
LoginSave(readOk, saveOut) ==
    /\ lpc = "save"
    /\ LET ld == Load(file, readOk)
           sv == Save(LoginConfig(ld.cfg, login.space, login.token), file, saveOut)
       IN  IF ~ld.ok
           THEN /\ LoginReturns(Err("LoadConfigFailed", "", 0, ""))
                /\ UNCHANGED file
           ELSE /\ lpc' = "returned"
                /\ login' = [login EXCEPT
                      !.writes = @ + (IF saveOut # "fail" THEN 1 ELSE 0),
                      !.result = IF sv.ok THEN Ok("")
                                 ELSE Err("ConfigPersistError", "", 0, "")]
                /\ file' = sv.file
    /\ UNCHANGED <<build, logins, listener, chan, senders, timer, reader, ui, last>>
    /\ UNCHANGED clientVars

\* the shutdown goroutine, released when Login returns
Shutdown ==
    /\ lpc = "returned"
    /\ listener = "open"
    /\ listener' = "closed"
    /\ UNCHANGED <<file, build, logins, lpc, login, chan, senders, timer, reader, ui, last>>
    /\ UNCHANGED clientVars

\* the process ends, and its goroutines with it
LoginExit ==
    /\ lpc = "returned"
    /\ AuthReset
    /\ last' = NoOp
    /\ UNCHANGED <<file, build, logins>>
    /\ UNCHANGED clientVars

\* only the access token looked at to tell whether one is logged in
LogoutChecksAccessOnly(f, readOk, saveOut) ==
    LET ld == Load(f, readOk)
        cfg == [ld.cfg EXCEPT !.AccessToken = "", !.RefreshToken = ""]
        sv == Save(cfg, f, saveOut)
    IN
    IF ~ld.ok THEN [err |-> "LoadConfigFailed", file |-> f, wrote |-> FALSE]
    ELSE IF ld.cfg.AccessToken = ""
        THEN [err |-> "NotLoggedIn", file |-> f, wrote |-> FALSE]
    ELSE [err |-> IF sv.ok THEN "" ELSE "ConfigPersistError", file |-> sv.file,
          wrote |-> saveOut # "fail"]

\* auth.Logout on the file f
Logout(f, readOk, saveOut) ==
    LET ld == Load(f, readOk)
        cfg == [ld.cfg EXCEPT !.AccessToken = "", !.RefreshToken = ""]
        sv == Save(cfg, f, saveOut)
    IN
    IF ~ld.ok THEN [err |-> "LoadConfigFailed", file |-> f, wrote |-> FALSE]
    ELSE IF ld.cfg.AccessToken = "" /\ ld.cfg.RefreshToken = ""
        THEN [err |-> "NotLoggedIn", file |-> f, wrote |-> FALSE]
    ELSE [err |-> IF sv.ok THEN "" ELSE "ConfigPersistError", file |-> sv.file,
          wrote |-> saveOut # "fail"]

\* bgl auth logout
LogoutOp ==
    /\ lpc = "idle"
    /\ \E readOk \in BOOLEAN, saveOut \in SaveOutcomes :
        LET r == Logout(file, readOk, saveOut) IN
        /\ file' = r.file
        /\ last' = [op |-> "logout", before |-> file, readOk |-> readOk,
                    tr |-> TransportFailure, run |-> r]
    /\ UNCHANGED <<build, logins, lpc, login, listener, chan, senders, timer, reader, ui>>
    /\ UNCHANGED clientVars

\* auth.RefreshToken called on its own
RefreshTokenOp ==
    /\ lpc = "idle"
    /\ \E i \in RefreshInputs :
        LET rf == RefreshToken(file, i.readOk1, i.tr, i.saveOut) IN
        /\ i.readOk2   \* RefreshToken does not read the config back
        /\ file' = rf.file
        /\ last' = [op |-> "refresh", before |-> file, readOk |-> i.readOk1,
                    tr |-> i.tr, run |-> rf]
    /\ UNCHANGED <<build, logins, lpc, login, listener, chan, senders, timer, reader, ui>>
    /\ UNCHANGED clientVars

InitAuth ==
    /\ file = FileAbsent
    /\ now = 1
    /\ client = NoClient
    /\ pc = "start"
    /\ req = NoReq
    /\ log = <<>>
    /\ result = NoResult
    /\ fileAtEntry = file
    /\ build \in Builds
    /\ AuthIdle

NextAuth ==
    \/ LoginPrompt
    \/ \E v \in TypedSpaces : InputEnter(v)
    \/ InputLateKey
    \/ \E stateOk \in BOOLEAN, busy \in BOOLEAN : InputQuit(stateOk, busy)
    \/ InputCancel
    \/ InputError
    \/ \E c \in CallbackRequests : Callback(c.state, c.code)
    \/ \E i \in 1..MaxCallbacks : BlockedSend(i)
    \/ ServeError
    \/ TimerFire
    \/ WaitForResult
    \/ \E k \in Keys : KeyPress(k)
    \/ SpinnerUpdate
    \/ SpinnerQuit
    \/ SpinnerError
    \/ \E tr \in ExchangeResponses : ExchangeCode(tr)
    \/ \E readOk \in BOOLEAN, saveOut \in SaveOutcomes : LoginSave(readOk, saveOut)
    \/ Shutdown
    \/ LoginExit
    \/ LogoutOp
    \/ RefreshTokenOp

SpecAuth == InitAuth /\ [][NextAuth]_vars

\* the goroutines of a login attempt are scheduled: the timer goroutine
\* wakes up, waitForResult receives what is in resultChan, the event loop
\* of the spinner program handles the messages sent to it, and the main
\* flow goes on after the program has ended (the token endpoint answers or
\* the transport fails)
FairLogin ==
    /\ WF_vars(TimerFire)
    /\ WF_vars(WaitForResult)
    /\ WF_vars(SpinnerUpdate)
    /\ WF_vars(SpinnerQuit)
    /\ WF_vars(\E tr \in ExchangeResponses : ExchangeCode(tr))
    /\ WF_vars(\E readOk \in BOOLEAN, saveOut \in SaveOutcomes : LoginSave(readOk, saveOut))

SpecAuthFair == InitAuth /\ [][NextAuth]_vars /\ FairLogin

(***************************************************************************)
(* The auth commands and NewClient run on a store written by an earlier    *)
(* version that set expires_at, with the expiry instant passed             *)
(* (specification SpecStored).                                             *)
(***************************************************************************)
StoredExpiry == 1
StoredConfig ==
    [Space |-> "sp.backlog.com", AccessToken |-> "t1", RefreshToken |-> "r1",
     ExpiresAt |-> StoredExpiry]

InitStored ==
    /\ file = JsonFile(Marshal(StoredConfig))
    /\ now = MaxTime
    /\ client = NoClient
    /\ pc = "start"
    /\ req = NoReq
    /\ log = <<>>
    /\ result = NoResult
    /\ fileAtEntry = file
    /\ build = BuiltWithCredentials
    /\ AuthIdle

\* one bgl command runs at a time: an auth command, or one that builds a
\* client and ends
NextStored ==
    \/ pc = "start" /\ NextAuth
    \/ lpc = "idle" /\ NewClient
    \/ lpc = "idle" /\ Return
    \/ lpc = "idle" /\ Exit

SpecStored == InitStored /\ [][NextStored]_vars

(***************************************************************************)
(* bgl comment add (internal/comment): the confirmation, NewClient and     *)
(* AddComment (specification SpecAdd).  The content is given on the        *)
(* command line; last holds the options and the answer of the user.        *)
(***************************************************************************)
ConfirmAnswers == {"yes", "no", "error"}

\* Add with opts.Yes = yes: the confirmation is shown unless --yes is given
AddStart(yes) ==
    /\ pc = "start"
    /\ lpc = "idle"
    /\ pc' = IF yes THEN "confirmed" ELSE "confirm"
    /\ last' = [op |-> "add", yes |-> yes, confirm |-> "none"]
    /\ req' = NoReq
    /\ log' = <<>>
    /\ result' = NoResult
    /\ fileAtEntry' = file
    /\ UNCHANGED <<file, now, client>>
    /\ UNCHANGED <<build, logins, lpc, login, listener, chan, senders, timer, reader, ui>>

\* the answer is not looked at
AddConfirmIgnoresAnswer(answer) ==
    /\ pc = "confirm"
    /\ last' = [last EXCEPT !.confirm = answer]
    /\ pc' = "confirmed"
    /\ UNCHANGED result
    /\ UNCHANGED <<file, now, client, req, log, fileAtEntry>>
    /\ UNCHANGED <<build, logins, lpc, login, listener, chan, senders, timer, reader, ui>>

\* huh.NewConfirm returns: an error ends Add with it, Cancel ends Add
\* with nil, Confirm lets it go on
AddConfirm(answer) ==
    /\ pc = "confirm"
    /\ last' = [last EXCEPT !.confirm = answer]
    /\ IF answer = "error"
       THEN pc' = "done" /\ result' = Err("ConfirmationFailed", "", 0, "")
       ELSE IF answer = "no"
       THEN pc' = "done" /\ result' = Ok("")
       ELSE pc' = "confirmed" /\ UNCHANGED result
    /\ UNCHANGED <<file, now, client, req, log, fileAtEntry>>
    /\ UNCHANGED <<build, logins, lpc, login, listener, chan, senders, timer, reader, ui>>

\* backlog.NewClient called by Add
AddNewClient ==
    /\ pc = "confirmed"
    /\ \E readOk \in BOOLEAN, i \in RefreshInputs : Construct(readOk, i)

NextAdd ==
    \/ \E yes \in BOOLEAN : AddStart(yes)
    \/ \E answer \in ConfirmAnswers : AddConfirm(answer)
    \/ AddNewClient
    \/ Return
    \/ AddComment
    \/ doPostRequest
    \/ Exit
    \/ Tick

SpecAdd == Init /\ [][NextAdd]_vars

(***************************************************************************)
(* The config store on its own: Save, Load and Logout on any config file  *)
(* the commands may find (specification SpecStore)                         *)
(***************************************************************************)
\* the configs the program may hold when it saves: strings decoded from
\* JSON or typed in, which are valid UTF-8
SavedConfigs ==
    [Space : Spaces \cup {""}, AccessToken : {"", "t1", ReplacedTok},
     RefreshToken : {"", "r1"}, ExpiresAt : ExpiryValues]

\* Config.Save of c, over the config file found
SaveOp ==
    /\ lpc = "idle"
    /\ last = NoOp
    /\ \E c \in SavedConfigs, saveOut \in SaveOutcomes :
        LET sv == Save(c, file, saveOut) IN
        /\ file' = sv.file
        /\ last' = [op |-> "save", cfg |-> c, ok |-> sv.ok]
    /\ UNCHANGED <<build, logins, lpc, login, listener, chan, senders, timer, reader, ui>>
    /\ UNCHANGED clientVars

\* config.Load after the Save
LoadOp ==
    /\ lpc = "idle"
    /\ last.op = "save"
    /\ \E readOk \in BOOLEAN :
        last' = [op |-> "load", cfg |-> last.cfg, saved |-> last.ok,
                 ld |-> Load(file, readOk)]
    /\ UNCHANGED <<file, build, logins, lpc, login, listener, chan, senders, timer, reader, ui>>
    /\ UNCHANGED clientVars

NextStore ==
    \/ SaveOp
    \/ LoadOp
    \/ LogoutOp

SpecStore == Init /\ [][NextStore]_vars

(***************************************************************************)
(* Properties                                                              *)
(***************************************************************************)
IsCall(e) == e.ev = "call"
IsRefresh(e) == e.ev = "refresh"
Calls == SelectSeq(log, IsCall)
Refreshes == SelectSeq(log, IsRefresh)
InRequest == pc \in {"call", "done"} /\ req.fn # "none"
Is401(e) == e.ev = "call" /\ e.out = "resp" /\ e.status = 401
SaysExpired(e) == Is401(e) /\ Contains(e.hdr, ExpiredPhrase)
SaysInvalid(e) == Is401(e) /\ Contains(e.hdr, InvalidPhrase)
PersistedToken(e) == e.file.obj.access_token

\* C1: against a target endpoint that answers every call with 401-expired
\* and a token endpoint whose refresh always succeeds, a request makes at
\* most one refresh attempt and at most two calls, and after the second
\* call it has returned an error.
C1_SingleRetryCap ==
    (/\ InRequest
     /\ \A i \in 1..Len(Calls) : SaysExpired(Calls[i])
     /\ \A i \in 1..Len(Refreshes) : Refreshes[i].err = "")
    => /\ Len(Refreshes) <= 1
       /\ Len(Calls) <= 2
       /\ Len(Calls) = 2 => (pc = "done" /\ result.kind = "error")

\* C2: first attempt 401-expired, refresh succeeds, retry answered 200: the
\* caller gets the body of the 200 response after exactly one refresh and
\* exactly two calls, and the retry has the method, path and form data of
\* the first attempt.
C2_RefreshThenRetrySucceeds ==
    (/\ InRequest
     /\ Len(Calls) >= 2
     /\ SaysExpired(Calls[1])
     /\ Len(Refreshes) >= 1
     /\ Refreshes[1].err = ""
     /\ Calls[2].out = "resp"
     /\ Calls[2].status = 200)
    => /\ pc = "done"
       /\ result = Ok(Calls[2].body)
       /\ Len(Refreshes) = 1
       /\ Len(Calls) = 2
       /\ Calls[2].method = Calls[1].method
       /\ Calls[2].path = Calls[1].path
       /\ Calls[2].data = Calls[1].data

C2_Witness ==
    /\ pc = "done"
    /\ req.fn = "doPostRequest"
    /\ Len(Calls) = 2
    /\ SaysExpired(Calls[1])
    /\ Calls[2].status = 200
    /\ Calls[2].data = CommentData
    /\ result = Ok("b2")

\* C3: first attempt 401-expired and the refresh that follows fails: the
\* request returns an error after exactly one call to the target endpoint
\* and exactly one refresh attempt.
C3_RefreshFailureNoRetry ==
    (/\ InRequest
     /\ Len(Calls) >= 1
     /\ SaysExpired(Calls[1])
     /\ Len(Refreshes) >= 1
     /\ Refreshes[1].err # "")
    => /\ pc = "done"
       /\ result.kind = "error"
       /\ result.err = "RefreshFailed"
       /\ Len(Calls) = 1
       /\ Len(Refreshes) = 1

C3_Witness ==
    /\ pc = "done"
    /\ Len(Calls) = 1
    /\ SaysExpired(Calls[1])
    /\ Len(Refreshes) = 1
    /\ Refreshes[1].err = "NoRefreshToken"
    /\ result.cause = "NoRefreshToken"

\* C4: a 401 whose challenge says the token is invalid and does not say it
\* expired ends the request at once with the invalid-token error: nothing
\* follows the call (no refresh, no retry) and the file is as it was.
C4_InvalidTokenFailsAtOnce ==
    InRequest =>
        \A i \in 1..Len(log) :
            (SaysInvalid(log[i]) /\ ~SaysExpired(log[i]))
            => /\ i = Len(log)
               /\ pc = "done"
               /\ result = Err("InvalidToken", "", 0, "")
               /\ file = fileAtEntry

C4_Witness ==
    /\ pc = "done"
    /\ Len(log) = 1
    /\ SaysInvalid(log[1])
    /\ log[1].hdr = HdrInvalid
    /\ result.err = "InvalidToken"

\* C5: a 401 whose challenge is absent or has neither recognised text ends
\* the request at once with AuthenticationFailed carrying 401: nothing
\* follows the call.
C5_UnrecognisedChallengeFailsClosed ==
    InRequest =>
        \A i \in 1..Len(log) :
            (Is401(log[i]) /\ ~SaysInvalid(log[i]) /\ ~SaysExpired(log[i]))
            => /\ i = Len(log)
               /\ pc = "done"
               /\ result = Err("AuthenticationFailed", "", 401, "")
               /\ file = fileAtEntry

C5_Witness ==
    /\ pc = "done"
    /\ Len(log) = 1
    /\ Is401(log[1])
    /\ log[1].hdr = HdrNear
    /\ result.err = "AuthenticationFailed"

\* the statuses the contract counts as success, by HTTP method
ContractSuccess(method) == IF method = "POST" THEN {200, 201} ELSE {200}

\* C6: a response with a status other than 401 ends the request: with the
\* body as-is exactly when the status is 200 (GET, PATCH) or 200 or 201
\* (POST), and otherwise with ApiRequestFailed carrying the status and the
\* body; no refresh and no retry follow.
C6_ClassificationByStatus ==
    InRequest =>
        \A i \in 1..Len(log) :
            (IsCall(log[i]) /\ log[i].out = "resp" /\ log[i].status # 401)
            => /\ i = Len(log)
               /\ pc = "done"
               /\ file = fileAtEntry
               /\ IF log[i].status \in ContractSuccess(log[i].method)
                  THEN result = Ok(log[i].body)
                  ELSE result = Err("ApiRequestFailed", "", log[i].status, log[i].body)

C6_Witness ==
    /\ pc = "done"
    /\ Len(log) = 1
    /\ log[1].method = "PATCH"
    /\ log[1].status = 201
    /\ result = Err("ApiRequestFailed", "", 201, "b2")

\* C7: a call that fails at the transport level ends the request with the
\* transport error: nothing follows the call and the file is as it was.
C7_TransportFailureNotRetried ==
    InRequest =>
        \A i \in 1..Len(log) :
            (IsCall(log[i]) /\ log[i].out = "transport")
            => /\ i = Len(log)
               /\ pc = "done"
               /\ result = Err("TransportError", "", 0, "")
               /\ file = fileAtEntry

C7_Witness ==
    /\ pc = "done"
    /\ Len(log) = 1
    /\ log[1].out = "transport"
    /\ result.err = "TransportError"

\* C8: every call after the first is preceded, in this order, by a call
\* answered 401-expired, a refresh that succeeded and a successful reload of
\* the config, and its Authorization header carries the access token that
\* this refresh persisted.
C8_RetryAfterRefreshAndReload ==
    InRequest =>
        \A i \in 2..Len(log) :
            IsCall(log[i])
            => /\ i >= 4
               /\ SaysExpired(log[i - 3])
               /\ IsRefresh(log[i - 2])
               /\ log[i - 2].err = ""
               /\ log[i - 1].ev = "load"
               /\ log[i - 1].ok
               /\ log[i].auth = PersistedToken(log[i - 2])
               /\ log[i].auth = log[i - 1].cfg.AccessToken

C8_Witness ==
    /\ InRequest
    /\ Len(log) >= 4
    /\ IsCall(log[4])
    /\ log[1].auth = "t1"
    /\ log[4].auth = "t2"
    /\ PersistedToken(log[2]) = "t2"

\* C9: NewClient on a loaded config with an empty access token fails with
\* NotAuthenticated whatever the other fields are, also when there is no
\* config file; it attempts no refresh and makes no network call.
C9_EmptyAccessTokenNotAuthenticated ==
    (/\ pc = "constructed"
     /\ log[1].ok
     /\ log[1].cfg.AccessToken = "")
    => /\ result = Err("NotAuthenticated", "", 0, "")
       /\ client = NoClient
       /\ Len(log) = 1
       /\ file = fileAtEntry

C9_Witness ==
    /\ pc = "constructed"
    /\ log[1].ok
    /\ log[1].cfg.AccessToken = ""
    /\ log[1].cfg.RefreshToken = "r1"
    /\ log[1].cfg.ExpiresAt = 2
    /\ now >= 2
    /\ result.err = "NotAuthenticated"

\* C10: NewClient on a loaded config with a non-empty access token invokes
\* the refresh once if expiresAt > 0 and the time is at or after expiresAt,
\* and not at all otherwise; if that refresh fails NewClient returns an
\* error and no client.
C10_ProactiveRefresh ==
    (/\ pc = "constructed"
     /\ log[1].ok
     /\ log[1].cfg.AccessToken # "")
    => /\ Len(Refreshes) =
            (IF log[1].cfg.ExpiresAt > 0 /\ now >= log[1].cfg.ExpiresAt THEN 1 ELSE 0)
       /\ Len(Calls) = 0
       /\ \A i \in 1..Len(Refreshes) :
            Refreshes[i].err # "" => (result.kind = "error" /\ client = NoClient)

C10_Witness ==
    /\ pc = "constructed"
    /\ log[1].ok
    /\ log[1].cfg.AccessToken # ""
    /\ log[1].cfg.ExpiresAt = now
    /\ Len(Refreshes) = 1
    /\ Refreshes[1].err = "RefreshRejected"
    /\ result.err = "TokenRefreshFailed"
    /\ client = NoClient

\* C11: NewClient on a credential with a non-empty access token and an
\* expiresAt in the past, whose refresh token the token endpoint accepts
\* (the refresh succeeds with an access token other than the stored one,
\* and the config is read back), returns a client; the persisted access
\* token is the newly issued one, it differs from the one stored before,
\* and the client holds it.
C11_ConstructionTimeRefresh ==
    (/\ pc = "constructed"
     /\ log[1].ok
     /\ log[1].cfg.AccessToken # ""
     /\ log[1].cfg.ExpiresAt > 0
     /\ now >= log[1].cfg.ExpiresAt
     /\ Len(log) >= 3
     /\ log[2].err = ""
     /\ log[2].issued[1] # log[1].cfg.AccessToken
     /\ log[3].ok)
    => /\ result = Ok("")
       /\ client.present
       /\ file.kind = "json"
       /\ file.obj.access_token = log[2].issued[1]
       /\ file.obj.access_token # log[1].cfg.AccessToken
       /\ client.cfg.AccessToken = file.obj.access_token

C11_Witness ==
    /\ pc = "constructed"
    /\ log[1].ok
    /\ log[1].cfg.AccessToken = "t1"
    /\ log[1].cfg.ExpiresAt = 2
    /\ now = 2
    /\ Len(log) = 3
    /\ log[2].err = ""
    /\ log[2].issued = <<"t2", "r2">>
    /\ file.obj.access_token = "t2"
    /\ client.present
    /\ client.cfg.AccessToken = "t2"

\* the config that a well-formed config file holds
Persisted == Unmarshal(file.obj)
LastRefresh == Refreshes[Len(Refreshes)]

\* C12: from the empty store, after any sequence of Login, RefreshToken and
\* Logout, the persisted access token and refresh token are both empty or
\* both non-empty.
C12_CredentialInvariant ==
    file.kind = "json" => (Persisted.AccessToken = "" <=> Persisted.RefreshToken = "")

\* C13: while the client works (NewClient or a request function), the
\* config file changes only by the write of a RefreshToken run whose token
\* response was a well-formed 200, and is then as that run left it; after a
\* refresh that succeeded and was read back, the config the client holds is
\* the persisted one.
C13_OnlyRefreshWrites ==
    pc \in {"call", "done", "constructed"} =>
        /\ file # fileAtEntry =>
              /\ Len(Refreshes) >= 1
              /\ LastRefresh.wrote
              /\ LastRefresh.posted
              /\ LastRefresh.status = 200
              /\ file = LastRefresh.file
        /\ \A i \in 1..(Len(log) - 1) :
              (/\ IsRefresh(log[i])
               /\ log[i].err = ""
               /\ log[i + 1].ev = "load"
               /\ log[i + 1].ok
               /\ \A j \in (i + 1)..Len(log) : ~IsRefresh(log[j])
               /\ client.present)
              => /\ file = log[i].file
                 /\ client.cfg = Persisted

C13_Witness ==
    /\ pc = "call"
    /\ Len(log) = 3
    /\ IsRefresh(log[2])
    /\ log[2].err = ""
    /\ file # fileAtEntry
    /\ log[1].auth = "t1"
    /\ client.cfg.AccessToken = "t2"
    /\ client.cfg = Persisted

\* C14: RefreshToken on a config whose refresh token is empty fails with
\* NoRefreshToken, sends no POST and writes nothing.
C14_NoRefreshToken ==
    (/\ last.op = "refresh"
     /\ Load(last.before, last.readOk).ok
     /\ Load(last.before, last.readOk).cfg.RefreshToken = "")
    => /\ last.run.err = "NoRefreshToken"
       /\ ~last.run.posted
       /\ ~last.run.wrote
       /\ file = last.before

C14_Witness ==
    /\ last.op = "refresh"
    /\ last.before.kind = "json"
    /\ last.before.obj.access_token = "t1"
    /\ last.before.obj.refresh_token = ""
    /\ last.tr.status = 200
    /\ last.run.err = "NoRefreshToken"
    /\ file = last.before

\* C15: a RefreshToken run whose POST fails at the transport level, is
\* answered with a status other than 200, or is answered with a body that
\* cannot be parsed, fails and leaves the config file as it was; a status
\* other than 200 is reported as RefreshRejected with that status.
C15_RefreshFailureKeepsFile ==
    (/\ last.op = "refresh"
     /\ Load(last.before, last.readOk).ok
     /\ Load(last.before, last.readOk).cfg.RefreshToken # ""
     /\ ~IsTokenOK(last.tr))
    => /\ last.run.err # ""
       /\ ~last.run.wrote
       /\ file = last.before
       /\ (last.tr.kind = "resp" /\ last.tr.status # 200)
          => (last.run.err = "RefreshRejected" /\ last.run.status = last.tr.status)

C15_Witness ==
    /\ last.op = "refresh"
    /\ last.before.kind = "json"
    /\ last.before.obj.refresh_token = "r1"
    /\ last.tr.kind = "resp"
    /\ last.tr.status = 500
    /\ last.run.err = "RefreshRejected"
    /\ last.run.status = 500
    /\ file = last.before

\* C16: a RefreshToken run that succeeds has sent its one POST with the
\* refresh token that was persisted before the call and has written the
\* config once; the persisted access token and refresh token are those of
\* the token response.
C16_RefreshSuccess ==
    (last.op = "refresh" /\ last.run.err = "")
    => /\ last.run.posted
       /\ last.run.wrote
       /\ last.run.sent = Load(last.before, TRUE).cfg.RefreshToken
       /\ last.run.sent # ""
       /\ IsTokenOK(last.tr)
       /\ file.kind = "json"
       /\ Persisted.AccessToken = last.tr.access_token
       /\ Persisted.RefreshToken = last.tr.refresh_token

C16_Witness ==
    /\ last.op = "refresh"
    /\ last.run.err = ""
    /\ last.before.kind = "json"
    /\ last.before.obj.access_token = "t1"
    /\ last.before.obj.refresh_token = "r1"
    /\ last.run.sent = "r1"
    /\ Persisted.AccessToken = "t2"
    /\ Persisted.RefreshToken = "r2"

IsHandler(i) == senders[i].kind = "handler"
\* the send of senders[i] can never go through: the buffer is full and the
\* one receive from resultChan has been done
Stuck(i) == ~senders[i].sent /\ ~HasRoom /\ reader = "done"

\* C17: a callback request whose state is not the nonce of the attempt
\* yields the StateMismatch result, with or without a code, never a code,
\* and is answered with 400: its handler is never left without a way to
\* answer.
C17_StateMismatch ==
    LoginRunning =>
        \A i \in 1..Len(senders) :
            (IsHandler(i) /\ senders[i].state # login.nonce)
            => /\ senders[i].res = AuthResult("", "StateMismatch")
               /\ senders[i].http \in {0, 400}
               /\ senders[i].sent => senders[i].http = 400
               /\ ~Stuck(i)

\* C18: a callback request with the nonce of the attempt and no code yields
\* the MissingAuthorizationCode result and is answered with 400 (its
\* handler is never left without a way to answer); when that result is the
\* one the main flow receives, no token exchange is made.
C18_MissingCode ==
    LoginRunning =>
        /\ \A i \in 1..Len(senders) :
              (IsHandler(i) /\ senders[i].state = login.nonce /\ senders[i].code = "")
              => /\ senders[i].res = AuthResult("", "MissingAuthorizationCode")
                 /\ senders[i].http \in {0, 400}
                 /\ senders[i].sent => senders[i].http = 400
                 /\ ~Stuck(i)
        /\ login.got.err = "MissingAuthorizationCode" => login.posts = 0

\* C19: when the exchange POST has been issued, the main flow had received
\* the result of a callback request with the nonce of the attempt and a
\* code, the POST carried that code, and the user had not cancelled; a
\* received mismatch, missing code or timeout is followed by no POST.
C19_ExchangeOnlyAfterValidCallback ==
    (LoginRunning /\ login.posts > 0)
    => /\ \E i \in 1..Len(senders) :
              /\ IsHandler(i)
              /\ senders[i].state = login.nonce
              /\ senders[i].code # ""
              /\ senders[i].sent
              /\ login.got = senders[i].res
              /\ login.code = senders[i].code
       /\ login.got.err = ""
       /\ ~login.cancelled

\* the spinner program returned a final model without an error
WaitSucceeded ==
    /\ lpc \in {"save", "returned"}
    /\ ~ui.running
    /\ ui.sm.done
    /\ ui.sm.err = ""

\* the writes of a finished Login: one when it succeeded, none when it
\* failed otherwise than in the save itself, none after a token response
\* with a status other than 200; never more than one POST
LoginWritesAndPosts ==
    /\ login.result.kind = "ok" => (login.writes = 1 /\ login.posts = 1)
    /\ (login.result.kind = "error" /\ login.result.err # "ConfigPersistError")
       => (login.writes = 0 /\ file = login.before)
    /\ login.status \notin {0, 200} => login.writes = 0
    /\ login.writes <= 1
    /\ login.posts <= 1

\* C20: Login writes the config once when it succeeds and not at all on a
\* failure path; it issues at most one POST, and exactly one when the wait
\* ended in success.
C20_LoginEffects ==
    lpc = "returned" =>
        /\ LoginWritesAndPosts
        /\ WaitSucceeded => login.posts = 1

\* C20, amended: as above, but exactly one POST when the wait ended in
\* success and the URL of the token endpoint, built from the space, is a
\* URL with a host; none when it is not.
C20_LoginEffectsAmended ==
    lpc = "returned" =>
        /\ LoginWritesAndPosts
        /\ (WaitSucceeded /\ CanPost(login.space)) => login.posts = 1
        /\ (WaitSucceeded /\ ~CanPost(login.space)) => login.posts = 0

C20_Witness ==
    /\ lpc = "returned"
    /\ WaitSucceeded
    /\ login.result = Ok("")
    /\ login.posts = 1
    /\ login.writes = 1
    /\ login.code = "c1"
    /\ file # login.before
    /\ Persisted.AccessToken = "t2"

\* Login has returned success
LoginSucceeded == lpc = "returned" /\ login.result = Ok("")

\* what a successful Login leaves in the config file: the space it used
\* and the two tokens of the token response
LoginPersisted ==
    /\ file.kind = "json"
    /\ Persisted.Space = login.space
    /\ Persisted.AccessToken = login.token[1]
    /\ Persisted.RefreshToken = login.token[2]

\* C21: after a successful Login the persisted config holds the entered
\* space and the access and refresh token of the token response, and a
\* NewClient that follows finds an access token (it does not fail with
\* NotAuthenticated).
C21_LoginPersists ==
    LoginSucceeded => (LoginPersisted /\ IsLoggedIn(Persisted))

\* the attempt has bound the callback port
Bound == login.shown

\* C22: when Login returns from an attempt that bound the callback port,
\* whatever the outcome, the listener has been shut down.
C22_ListenerCleanup ==
    (lpc = "returned" /\ Bound) => listener # "open"

\* the wait is decided: a callback request has been received, the timer has
\* fired, or Login is past the wait
WaitDecided == senders # <<>> \/ timer = "fired" \/ lpc # "waiting"
\* this step starts a callback handler
HandlerStarts ==
    /\ Len(senders') > Len(senders)
    /\ senders'[Len(senders')].kind = "handler"

\* C23: once the outcome of the wait is determined the listener handles no
\* further callback request, and it is not open while the token exchange
\* and the config write take place.
C23_ListenerLifetime ==
    [][/\ WaitDecided => ~HandlerStarts
       /\ lpc' \in {"exchange", "save"} => listener' # "open"]_vars

\* C24: resultChan holds at most one result, and no writer on it, callback
\* handler or server goroutine, is left blocked with no receive to come.
C24_NoBlockedWriter ==
    LoginRunning =>
        /\ Len(chan) <= ResultChanCap
        /\ \A i \in 1..Len(senders) : ~Stuck(i)

\* the spinner program has had its first deciding event: a result message
\* or a cancel key
Decided == ui.sm.done \/ login.cancelled

\* C25: the first of a delivered result (callback or timeout) and a cancel
\* key decides the outcome of the wait; no later event changes the model
\* that Login reads the outcome from.
C25_FirstEventDecides ==
    [][(Decided /\ lpc' # "idle") => ui'.sm = ui.sm]_vars

\* C27: once the user has cancelled the wait, no token exchange and no
\* config write take place, and Login returns Cancelled with the listener
\* shut down.
C27_Cancellation ==
    login.cancelled =>
        /\ lpc \notin {"exchange", "save"}
        /\ login.posts = 0
        /\ login.writes = 0
        /\ lpc = "returned" =>
              /\ login.result.err = "Cancelled"
              /\ listener # "open"

\* C28: with an empty build-time client id or client secret, Login never
\* binds the callback port, shows no URL and opens no browser, issues no
\* POST and leaves the config file as it was, and once the space has been
\* obtained from the prompt it returns MissingClientCredentials.
C28_MissingCredentials ==
    (build.ClientID = "" \/ build.ClientSecret = "") =>
        /\ listener = "none"
        /\ ~login.shown
        /\ login.posts = 0
        /\ login.writes = 0
        /\ lpc # "idle" => file = login.before
        /\ (lpc = "returned" /\ login.prompted)
              => login.result.err = "MissingClientCredentials"

C28_Witness ==
    /\ lpc = "returned"
    /\ build.ClientID = "id"
    /\ build.ClientSecret = ""
    /\ login.prompted
    /\ login.space = "sp.backlog.com"
    /\ login.result.err = "MissingClientCredentials"

\* C30: when the callback port is in use at the bind, Login returns
\* CallbackPortUnavailable without holding the port: no URL is shown, no
\* POST is issued and the config file is not written.
C30_PortInUse ==
    login.portBusy =>
        /\ lpc = "returned"
        /\ login.result.err = "CallbackPortUnavailable"
        /\ listener = "none"
        /\ ~login.shown
        /\ login.posts = 0
        /\ login.writes = 0
        /\ file = login.before

C30_Witness ==
    /\ lpc = "returned"
    /\ login.portBusy
    /\ login.prompted
    /\ login.space = "sp.backlog.com"
    /\ login.result.err = "CallbackPortUnavailable"
    /\ file = login.before

\* s is some string followed by suffix
EndsIn(s, suffix) ==
    \E n \in 0..Len(Parts(s)) : Parts(s) = SubSeq(Parts(s), 1, n) \o Parts(suffix)
Accepted(s) == EndsIn(s, ".backlog.com") \/ EndsIn(s, ".backlog.jp")
\* this step is Enter in the input program
EnterStep == lpc = "input" /\ lpc' = "input" /\ ~login.imDone /\ login' # login

\* C29: ValidateSpace succeeds on the strings that end in ".backlog.com"
\* or ".backlog.jp" and fails with InvalidSpaceFormat on all others, so does
\* the input program on Enter, and Login binds the callback port and issues
\* a POST only with a space that ValidateSpace accepts.
C29_ValidateSpace ==
    /\ [](\A v \in TypedSpaces :
             ValidateSpace(v) = IF Accepted(v) THEN "" ELSE "InvalidSpaceFormat")
    /\ [][EnterStep =>
             /\ login'.imDone <=> Accepted(login'.value)
             /\ login'.imErr = IF Accepted(login'.value) THEN "" ELSE "InvalidSpaceFormat"]_vars
    /\ []((Bound \/ login.posts > 0) => ValidateSpace(login.space) = "")

\* the result the timer goroutine sends
TimeoutResult == AuthResult("", "AuthenticationTimeout")

LogoutLoaded == Load(last.before, last.readOk)
HasToken(cfg) == cfg.AccessToken # "" \/ cfg.RefreshToken # ""

\* C31: Logout on a config with an access token or a refresh token goes on
\* to the save, and when it succeeds the persisted config is the one found
\* with both tokens empty, space and expiresAt as they were, so that
\* NewClient finds no access token; Logout on a config with neither fails
\* with "not logged in" and does not write.
C31_Logout ==
    (last.op = "logout" /\ LogoutLoaded.ok) =>
        /\ HasToken(LogoutLoaded.cfg) =>
              /\ last.run.err \in {"", "ConfigPersistError"}
              /\ last.run.err = "" =>
                    /\ file.kind = "json"
                    /\ Persisted = [LogoutLoaded.cfg EXCEPT !.AccessToken = "",
                                                           !.RefreshToken = ""]
                    /\ ~IsLoggedIn(Persisted)
        /\ ~HasToken(LogoutLoaded.cfg) =>
              /\ last.run.err = "NotLoggedIn"
              /\ ~last.run.wrote
              /\ file = last.before

C31_Witness ==
    /\ last.op = "logout"
    /\ last.run.err = ""
    /\ LogoutLoaded.cfg.AccessToken = ""
    /\ LogoutLoaded.cfg.RefreshToken = "r1"
    /\ Persisted.RefreshToken = ""
    /\ Persisted.Space = "sp.backlog.com"
    /\ Persisted.ExpiresAt = 2

\* C32: Load after a successful Save of a config returns that config, equal
\* in space, access token, refresh token and expiresAt.
C32_LoadSaveRoundTrip ==
    (last.op = "load" /\ last.saved /\ last.ld.ok) =>
        /\ last.ld.cfg.Space = last.cfg.Space
        /\ last.ld.cfg.AccessToken = last.cfg.AccessToken
        /\ last.ld.cfg.RefreshToken = last.cfg.RefreshToken
        /\ last.ld.cfg.ExpiresAt = last.cfg.ExpiresAt

C32_Witness ==
    /\ last.op = "load"
    /\ last.saved
    /\ last.ld.ok
    /\ last.cfg.Space = BadSpace
    /\ last.cfg.AccessToken = ReplacedTok
    /\ last.cfg.RefreshToken = "r1"
    /\ last.cfg.ExpiresAt = 2
    /\ last.ld.cfg = last.cfg

\* Add runs without --yes
AddAsks == last.op = "add" /\ ~last.yes
\* the POSTs to the comments endpoint made by the request in progress
CommentPosts ==
    {i \in 1..Len(log) :
        log[i].ev = "call" /\ log[i].method = "POST" /\ log[i].path = CommentsPath}

\* C33: when a comment is added without --yes, the client is constructed
\* and the POST to the comments endpoint is issued only after the
\* confirmation returned true; when the user declines, Add returns nil with
\* no client constructed, no request issued and the config file untouched.
C33_ConfirmBeforeAdd ==
    AddAsks =>
        /\ (\/ client.present
            \/ pc \in {"confirmed", "constructed", "ready", "call"}
            \/ log # <<>>) => last.confirm = "yes"
        /\ last.confirm = "no" =>
              /\ pc \in {"done", "start"}
              /\ pc = "done" => result = Ok("")
              /\ ~client.present
              /\ log = <<>>
              /\ file = fileAtEntry

C33_Witness ==
    /\ AddAsks
    /\ last.confirm = "yes"
    /\ pc = "done"
    /\ result = Ok("b1")
    /\ CommentPosts # {}
    /\ log[1].data = CommentData

\* C34: a client returned by NewClient holds a non-empty access token, also
\* when NewClient ran the refresh and read the config back.
C34_ClientHasAccessToken ==
    (pc = "constructed" /\ client.present) => client.cfg.AccessToken # ""

\* a step of NewClient, of Login's save, and of RefreshToken (run on its own
\* or by NewClient) that changes the config file
NewClientStep == pc = "start" /\ pc' = "constructed"
LoginWrites == lpc = "save" /\ file' # file
RefreshWrites ==
    /\ file' # file
    /\ NewClientStep \/ (lpc = "idle" /\ pc' = pc /\ last'.op = "refresh")

\* the write leaves expiresAt as it was, unless it failed midway and left
\* no readable config
ExpiryKept ==
    /\ file'.kind # "absent"
    /\ file'.kind = "json" =>
          Unmarshal(file'.obj).ExpiresAt = Load(file, TRUE).cfg.ExpiresAt
SpaceKept ==
    file'.kind = "json" => Unmarshal(file'.obj).Space = Load(file, TRUE).cfg.Space

\* NewClient has read the config and found the stored expiry passed
FoundExpired ==
    /\ log'[1].ok
    /\ log'[1].cfg.ExpiresAt > 0
    /\ log'[1].cfg.ExpiresAt <= now
RefreshInvoked == NumEv(log', "refresh") = 1

\* C35 as stated: Login and RefreshToken leave expiresAt (RefreshToken also
\* space) as it was, and every NewClient that reads a config whose expiresAt
\* is positive and in the past invokes a refresh.
C35_EveryNewClientRefreshes ==
    [][/\ LoginWrites => ExpiryKept
       /\ RefreshWrites => (ExpiryKept /\ SpaceKept)
       /\ (NewClientStep /\ FoundExpired) => RefreshInvoked]_vars

\* C35, amended: on a store whose expiresAt is positive and in the past, a
\* write of Login or RefreshToken that completes leaves expiresAt (and
\* RefreshToken leaves space) as it was, so that a readable config always
\* holds the passed expiry; every NewClient that reads the config and finds
\* an access token invokes a refresh, and one that finds none fails with
\* NotAuthenticated without a refresh.
C35_ExpiryNeverUpdated ==
    /\ [](file.kind = "json" => Persisted.ExpiresAt = StoredExpiry)
    /\ [][/\ LoginWrites => ExpiryKept
          /\ RefreshWrites => (ExpiryKept /\ SpaceKept)
          /\ (NewClientStep /\ log'[1].ok /\ IsLoggedIn(log'[1].cfg)) => RefreshInvoked
          /\ (NewClientStep /\ log'[1].ok /\ ~IsLoggedIn(log'[1].cfg)) =>
                /\ result'.err = "NotAuthenticated"
                /\ NumEv(log', "refresh") = 0
                /\ file' = file]_vars

\* NewClient directly after a Login that stored the pair ("t1", "") of the
\* token response: the refresh is invoked
C35_Witness ==
    /\ pc = "constructed"
    /\ logins > 0
    /\ log[1].ok
    /\ log[1].cfg.AccessToken = "t1"
    /\ log[1].cfg.RefreshToken = ""
    /\ log[1].cfg.ExpiresAt = StoredExpiry
    /\ NumEv(log, "refresh") = 1

\* auth.RefreshToken run on its own, and the refresh token a file holds
RefreshOpStep == lpc = "idle" /\ lpc' = "idle" /\ pc' = pc /\ last'.op = "refresh"
StoredRefreshToken(f) == IF f.kind = "json" THEN Unmarshal(f.obj).RefreshToken ELSE ""

\* C36: a RefreshToken call that posts sends the refresh token persisted at
\* that moment; the persisted refresh token changes only to the one a
\* successful refresh or a successful Login was given by the token endpoint
\* (or to none, by Logout or by a save that failed midway); so a
\* successful refresh that follows a successful one sends the refresh token
\* the earlier one was given, never an older one.
C36_Rotation ==
    [][/\ (RefreshOpStep /\ last'.run.posted) =>
             /\ last'.run.sent = StoredRefreshToken(file)
             /\ last'.run.sent # ""
       /\ (RefreshOpStep /\ last'.run.err = "" /\ last.op = "refresh" /\ last.run.err = "") =>
             last'.run.sent = last.run.issued[2]
       /\ StoredRefreshToken(file') # StoredRefreshToken(file) =>
             \/ /\ RefreshOpStep
                /\ last'.run.err = ""
                /\ StoredRefreshToken(file') = last'.run.issued[2]
             \/ /\ lpc = "save"
                /\ login'.result = Ok("")
                /\ StoredRefreshToken(file') = login.token[2]
             \/ /\ lpc = "idle"
                /\ last'.op = "logout"
                /\ StoredRefreshToken(file') = ""
             \/ file'.kind = "garbage"]_vars

\* a refresh that sent "r2", the token an earlier refresh was given, and
\* was given "r1" in turn
C36_Witness ==
    /\ last.op = "refresh"
    /\ last.run.err = ""
    /\ last.run.sent = "r2"
    /\ last.run.issued = <<"t1", "r1">>
    /\ Persisted.RefreshToken = "r1"

\* the config file as a successful Logout leaves it: readable, both tokens
\* empty
LoggedOut(f) ==
    /\ f.kind = "json"
    /\ Unmarshal(f.obj).AccessToken = ""
    /\ Unmarshal(f.obj).RefreshToken = ""

\* C37: a successful Logout leaves a readable config with both tokens
\* empty; while the file is so, RefreshToken that reads it fails with
\* NoRefreshToken without a POST and without a write, NewClient that reads
\* it fails with NotAuthenticated without a refresh, and the only step that
\* changes the file is the save of Login.
C37_LoggedOutUntilLogin ==
    /\ []((last.op = "logout" /\ last.run.err = "") => LoggedOut(file))
    /\ [][LoggedOut(file) =>
             /\ (RefreshOpStep /\ last'.readOk) =>
                   /\ last'.run.err = "NoRefreshToken"
                   /\ ~last'.run.posted
                   /\ ~last'.run.wrote
                   /\ file' = file
             /\ (NewClientStep /\ log'[1].ok) =>
                   /\ result' = Err("NotAuthenticated", "", 0, "")
                   /\ client' = NoClient
                   /\ Len(log') = 1
                   /\ file' = file
             /\ file' # file => lpc = "save"
             /\ (file'.kind = "json" /\ Unmarshal(file'.obj).AccessToken # "") =>
                   /\ lpc = "save"
                   /\ login'.result = Ok("")]_vars

\* NewClient right after a successful Logout of the stored login
C37_Witness ==
    /\ last.op = "logout"
    /\ last.run.err = ""
    /\ Unmarshal(last.before.obj).AccessToken = "t1"
    /\ pc = "constructed"
    /\ log[1].ok
    /\ result = Err("NotAuthenticated", "", 0, "")
    /\ file = last.run.file

\* the handler of request i has written the "Login successful!" page and
\* returned, so that the page has gone out to the browser
SuccessPage(i) == IsHandler(i) /\ senders[i].sent /\ senders[i].http = StatusOK

\* C38: when Login has returned, the spinner program having run, every
\* callback request that was answered with the "Login successful!" page is
\* the one whose result the main flow received; the outcome is none of
\* timeout, state mismatch, missing code and cancellation, and the exchange
\* was made with the code of that request.
C38_SuccessPageMeansSuccess ==
    (lpc = "returned" /\ login.result.err # "SpinnerError") =>
        \A i \in 1..Len(senders) :
            SuccessPage(i) =>
                /\ login.got = senders[i].res
                /\ login.result.err \notin
                      {"AuthenticationTimeout", "StateMismatch",
                       "MissingAuthorizationCode", "Cancelled"}
                /\ CanPost(login.space) =>
                      (login.posts = 1 /\ login.code = senders[i].code)

====
